---- MODULE Spec2Model ----
(***************************************************************************)
(* Model of ffmiyo/exa (src/main.go): a raw-mode terminal screen           *)
(* controller.  main enters raw mode, queries the terminal size and then   *)
(* loops: refresh (draw one frame), processKeyPress (block in a read of up *)
(* to 4 bytes into a reused buffer, decode it, reset buffer slot 1, apply  *)
(* the key).  Bytes are modelled by their integer values, strings by       *)
(* sequences of bytes, the buffer by a function on 0..3 as in the source.  *)
(***************************************************************************)
EXTENDS Integers, Sequences, FiniteSets, TLC

\* ------------------------------------------------------------------ bounds
\* Terminal widths narrower than the welcome message: 1..MaxWidth.
MaxWidth == 3
\* Terminal heights: 1..MaxHeight.
MaxHeight == 3
\* Number of reads (loop iterations) explored in one run.
MaxKeys == 3

\* ------------------------------------------------------- program constants
ESC == 27
LBRACKET == 91
TILDE == 126
NUL == 0
DEL == 127
SPACE == 32
ARW_LEFT == 1000
ARW_UP == ARW_LEFT + 1
ARW_RIGHT == ARW_LEFT + 2
ARW_DOWN == ARW_LEFT + 3
PG_UP == ARW_LEFT + 4
PG_DOWN == ARW_LEFT + 5
\* 0x1f & 'q'  (main.go:64)
CTRL_Q == 17
\* len(b), main.go:37
BufLen == 4

\* "Welcome to this stupid text editor :)"
Message ==
    << 87, 101, 108, 99, 111, 109, 101, 32, 116, 111, 32, 116, 104, 105, 115,
       32, 115, 116, 117, 112, 105, 100, 32, 116, 101, 120, 116, 32, 101, 100,
       105, 116, 111, 114, 32, 58, 41 >>

\* "\x1b[?25l"
HideCursor == << 27, 91, 63, 50, 53, 108 >>
\* "\x1b[?25h"
ShowCursor == << 27, 91, 63, 50, 53, 104 >>
\* "\x1b[H"
CursorHome == << 27, 91, 72 >>
\* "\x1b[K"
ClearLine == << 27, 91, 75 >>
\* "\r\n"
LineBreak == << 13, 10 >>
\* "\x1b[H\x1b[2J"
ClearScreen == << 27, 91, 72, 27, 91, 50, 74 >>
\* "~"
Marker == << 126 >>

\* ------------------------------------------------------------------- state
VARIABLES
    pc,        \* position of main: "start", "getsize", "refresh", "read",
               \* "decode", "return", "exit"
    termMode,  \* mode of the terminal: "cooked" or "raw"
    deferred,  \* TRUE once `defer term.Restore(0, oldState)` is registered
    exitKind,  \* "none", "panic" or "return"
    ed,        \* the Editor struct: width, height, cx, cy
    b,         \* the 4-byte input buffer, indexed 0..3
    ch,        \* the key returned by the last readKey
    run,       \* the loop variable of main
    got,       \* the bytes delivered by the last os.Stdin.Read
    out,       \* the bytes written to stdout by the last step that wrote
    nRender,   \* number of calls of refresh
    nRead,     \* number of reads returned
    nUpdate,   \* number of keys applied by processKeyPress
    nClear,    \* number of full-screen clears written
    hist       \* where recorded: the cursor at the start, then every key
               \* applied with the cursor after it

vars == << pc, termMode, deferred, exitKind, ed, b, ch, run, got, out,
           nRender, nRead, nUpdate, nClear, hist >>

\* ------------------------------------------------------------ key decoding
IsDigit(c) == c >= 48 /\ c <= 57

\* readKey with the cases 'C' and 'D' exchanged.
readKeySwapped(buf) ==
    IF buf[0] = ESC
    THEN IF buf[1] # LBRACKET
         THEN ESC
         ELSE IF IsDigit(buf[2]) /\ buf[3] = TILDE /\ buf[2] = 53 THEN PG_UP
         ELSE IF IsDigit(buf[2]) /\ buf[3] = TILDE /\ buf[2] = 54 THEN PG_DOWN
         ELSE CASE buf[2] = 65 -> ARW_UP
                [] buf[2] = 66 -> ARW_DOWN
                [] buf[2] = 67 -> ARW_LEFT
                [] buf[2] = 68 -> ARW_RIGHT
                [] OTHER -> buf[0]
    ELSE buf[0]

\* readKey without the test of the terminator b[3] == '~'.
readKeyNoTilde(buf) ==
    IF buf[0] = ESC
    THEN IF buf[1] # LBRACKET
         THEN ESC
         ELSE IF IsDigit(buf[2]) /\ buf[2] = 53 THEN PG_UP
         ELSE IF IsDigit(buf[2]) /\ buf[2] = 54 THEN PG_DOWN
         ELSE CASE buf[2] = 65 -> ARW_UP
                [] buf[2] = 66 -> ARW_DOWN
                [] buf[2] = 67 -> ARW_RIGHT
                [] buf[2] = 68 -> ARW_LEFT
                [] OTHER -> buf[0]
    ELSE buf[0]

\* readKey after os.Stdin.Read has filled the buffer: the decoding of buf.
readKey(buf) ==
    IF buf[0] = ESC
    THEN IF buf[1] # LBRACKET
         THEN ESC
         ELSE IF IsDigit(buf[2]) /\ buf[3] = TILDE /\ buf[2] = 53 THEN PG_UP
         ELSE IF IsDigit(buf[2]) /\ buf[3] = TILDE /\ buf[2] = 54 THEN PG_DOWN
         ELSE CASE buf[2] = 65 -> ARW_UP
                [] buf[2] = 66 -> ARW_DOWN
                [] buf[2] = 67 -> ARW_RIGHT
                [] buf[2] = 68 -> ARW_LEFT
                [] OTHER -> buf[0]
    ELSE buf[0]

\* os.Stdin.Read(b): the bytes delivered overwrite the first Len(chunk) slots,
\* the other slots keep what they held.
StdinRead(buf, chunk) ==
    [i \in 0..(BufLen - 1) |-> IF i < Len(chunk) THEN chunk[i + 1] ELSE buf[i]]

\* processKeyPress without the reset of b[1].
ResetSlotMissing(buf) == buf

\* processKeyPress resetting b[3] instead of b[1].
ResetSlotWrongSlot(buf) == [buf EXCEPT ![3] = NUL]

\* b[1] = '\x00' after every decode.
ResetSlot(buf) == [buf EXCEPT ![1] = NUL]

\* ---------------------------------------------------------- cursor movement
\* moveCursor with the right and bottom limits off by one.
moveCursorOffByOne(e, key) ==
    CASE key = ARW_LEFT ->
           IF e.cx = 0 THEN e ELSE [e EXCEPT !.cx = e.cx - 1]
      [] key = ARW_RIGHT ->
           IF e.cx = e.width THEN e ELSE [e EXCEPT !.cx = e.cx + 1]
      [] key = ARW_UP ->
           IF e.cy = 0 THEN e ELSE [e EXCEPT !.cy = e.cy - 1]
      [] key = ARW_DOWN ->
           IF e.cy = e.height THEN e ELSE [e EXCEPT !.cy = e.cy + 1]
      [] OTHER -> e

\* moveCursor with ARW_LEFT decrementing the row instead of the column.
moveCursorLeftWrongAxis(e, key) ==
    CASE key = ARW_LEFT ->
           IF e.cx = 0 THEN e ELSE [e EXCEPT !.cy = e.cy - 1]
      [] key = ARW_RIGHT ->
           IF e.cx = e.width - 1 THEN e ELSE [e EXCEPT !.cx = e.cx + 1]
      [] key = ARW_UP ->
           IF e.cy = 0 THEN e ELSE [e EXCEPT !.cy = e.cy - 1]
      [] key = ARW_DOWN ->
           IF e.cy = e.height - 1 THEN e ELSE [e EXCEPT !.cy = e.cy + 1]
      [] OTHER -> e

\* moveCursor wrapping around at the edges instead of stopping.
moveCursorWrap(e, key) ==
    CASE key = ARW_LEFT ->
           [e EXCEPT !.cx = IF e.cx = 0 THEN e.width - 1 ELSE e.cx - 1]
      [] key = ARW_RIGHT ->
           [e EXCEPT !.cx = IF e.cx = e.width - 1 THEN 0 ELSE e.cx + 1]
      [] key = ARW_UP ->
           [e EXCEPT !.cy = IF e.cy = 0 THEN e.height - 1 ELSE e.cy - 1]
      [] key = ARW_DOWN ->
           [e EXCEPT !.cy = IF e.cy = e.height - 1 THEN 0 ELSE e.cy + 1]
      [] OTHER -> e

moveCursor(e, key) ==
    CASE key = ARW_LEFT ->
           IF e.cx = 0 THEN e ELSE [e EXCEPT !.cx = e.cx - 1]
      [] key = ARW_RIGHT ->
           IF e.cx = e.width - 1 THEN e ELSE [e EXCEPT !.cx = e.cx + 1]
      [] key = ARW_UP ->
           IF e.cy = 0 THEN e ELSE [e EXCEPT !.cy = e.cy - 1]
      [] key = ARW_DOWN ->
           IF e.cy = e.height - 1 THEN e ELSE [e EXCEPT !.cy = e.cy + 1]
      [] OTHER -> e

\* A page key that moves one row only.
PageLoopOnce(e, key, i) == moveCursor(e, key)

\* for i := 0; i <= ed.height; i++ { ed.moveCursor(key) }, from i on.
RECURSIVE PageLoop(_, _, _)
PageLoop(e, key, i) ==
    IF i <= e.height THEN PageLoop(moveCursor(e, key), key, i + 1) ELSE e

IsQuit(key) == key = CTRL_Q

IsArrow(key) == key \in {ARW_UP, ARW_DOWN, ARW_RIGHT, ARW_LEFT}

\* A switch whose default case moves the cursor to the first column.
ApplyKeyDefaultHome(e, key) ==
    CASE IsQuit(key)    -> e
      [] IsArrow(key)   -> moveCursor(e, key)
      [] key = PG_UP    -> PageLoop(e, ARW_UP, 0)
      [] key = PG_DOWN  -> PageLoop(e, ARW_DOWN, 0)
      [] OTHER          -> [e EXCEPT !.cx = 0]

\* The switch of processKeyPress: the editor after the key is applied.
ApplyKey(e, key) ==
    CASE IsQuit(key)    -> e
      [] IsArrow(key)   -> moveCursor(e, key)
      [] key = PG_UP    -> PageLoop(e, ARW_UP, 0)
      [] key = PG_DOWN  -> PageLoop(e, ARW_DOWN, 0)
      [] OTHER          -> e

\* processKeyPress returning false on the Escape key as well.
KeepRunningQuitOnEsc(key) == ~IsQuit(key) /\ key # ESC

\* The value processKeyPress returns: false on quit only.
KeepRunning(key) == ~IsQuit(key)

\* What processKeyPress prints: the screen clear on quit, else nothing.
KeyOutput(key) == IF IsQuit(key) THEN ClearScreen ELSE << >>

\* Number of places where pat occurs in text.
Occurrences(text, pat) ==
    Cardinality({i \in 1..(Len(text) - Len(pat) + 1) :
                    SubSeq(text, i, i + Len(pat) - 1) = pat})

\* ---------------------------------------------------------------- rendering
\* Go's integer division truncates toward zero.
GoDiv(x, y) == IF x >= 0 THEN x \div y ELSE -((-x) \div y)

\* The decimal text fmt.Print writes for a non-negative int.
RECURSIVE Itoa(_)
Itoa(n) == IF n < 10 THEN << 48 + n >> ELSE Itoa(n \div 10) \o << 48 + (n % 10) >>

\* for i := 1; i <= padding; i++ { screen += " " }, from i on.
RECURSIVE PadLoop(_, _, _)
PadLoop(screen, padding, i) ==
    IF i <= padding THEN PadLoop(screen \o << SPACE >>, padding, i + 1) ELSE screen

\* screen = screen[:ed.width] panics when ed.width exceeds len(screen).
SlicePanics(screen, n) == n > Len(screen)

\* The banner branch of drawRows (y == ed.height/3), without the slice check.
BannerRow(e, screen) ==
    LET cut     == IF Len(Message) > e.width
                   THEN SubSeq(screen, 1, e.width)
                   ELSE screen
        padding == GoDiv(e.width - Len(Message), 2)
    IN  PadLoop(cut \o Marker, padding, 1) \o Message

\* The end of one loop iteration of drawRows: clear line, line break.
RowEnd(e, y, screen) ==
    screen \o ClearLine \o (IF y < e.height - 1 THEN LineBreak ELSE << >>)

\* for y := 0; y < ed.height; y++ { ... }, from y on, with the text built so
\* far.  The result says whether the loop panicked and the text it built.
RECURSIVE DrawLoop(_, _, _)
DrawLoop(e, y, screen) ==
    IF y >= e.height
    THEN [panic |-> FALSE, screen |-> screen]
    ELSE IF y = GoDiv(e.height, 3)
         THEN IF Len(Message) > e.width /\ SlicePanics(screen, e.width)
              THEN [panic |-> TRUE, screen |-> screen]
              ELSE DrawLoop(e, y + 1, RowEnd(e, y, BannerRow(e, screen)))
         ELSE DrawLoop(e, y + 1, RowEnd(e, y, screen \o Marker))

\* drawRows: the text printed (nothing when the loop panics before the Print).
drawRows(e) ==
    LET r == DrawLoop(e, 0, << >>)
    IN  [panic |-> r.panic, text |-> IF r.panic THEN << >> ELSE r.screen]

\* "\x1b[", ed.cy+1, ";", ed.cx+1, "H"
CursorPos(e) == << 27, 91 >> \o Itoa(e.cy + 1) \o << 59 >> \o Itoa(e.cx + 1) \o << 72 >>

\* refresh: whether it panicked and the bytes it wrote to stdout.
refresh(e) ==
    LET rows == drawRows(e)
    IN  IF rows.panic
        THEN [panic |-> TRUE, text |-> HideCursor \o CursorHome]
        ELSE [panic |-> FALSE,
              text  |-> HideCursor \o CursorHome \o rows.text
                        \o CursorPos(e) \o ShowCursor]

\* An exit that skips the deferred calls (as os.Exit would).
RunDeferredSkipped(mode, registered) == mode

\* A panic or a return of main runs the deferred term.Restore, if registered.
RunDeferred(mode, registered) == IF registered THEN "cooked" ELSE mode

\* A loop that ignores run.
LoopNextForever(r) == "refresh"

\* A loop that renders once, before the loop, and not in it.
LoopNextNoRender(r) == IF r THEN "read" ELSE "return"

\* The loop condition of main: another iteration, or fall out of the loop.
LoopNext(r) == IF r THEN "refresh" ELSE "return"

\* ------------------------------------------------------------------ inputs
\* Terminal sizes term.GetSize may report.
Widths == (1..MaxWidth) \cup {Len(Message)}
Heights == 1..MaxHeight

\* Bytes a read may deliver: ctrl-q, ESC, '[', 'A'..'D', '1', '5', '6', '~',
\* 'x', DEL.
KeyBytes == {CTRL_Q, ESC, LBRACKET, 65, 66, 67, 68, 49, 53, 54, TILDE, 120, DEL}

\* Fourth bytes of a 4-byte read: the terminator '~', or something else.
LastBytes == {TILDE, LBRACKET, 65}

\* What one os.Stdin.Read may deliver: nothing, one byte, or an escape
\* sequence ESC c, ESC [ c, ESC [ c d, whole or cut short.
Chunks ==
    {<< >>}
    \cup {<< c >> : c \in KeyBytes}
    \cup {<< ESC, c >> : c \in KeyBytes}
    \cup {<< ESC, LBRACKET, c >> : c \in KeyBytes}
    \cup {<< ESC, LBRACKET, c, d >> : c \in KeyBytes, d \in LastBytes}

\* -------------------------------------------------------------------- main
Init ==
    /\ pc = "start"
    /\ termMode = "cooked"
    /\ deferred = FALSE
    /\ exitKind = "none"
    /\ ed = [width |-> 0, height |-> 0, cx |-> 0, cy |-> 0]
    /\ b = [i \in 0..(BufLen - 1) |-> NUL]
    /\ ch = NUL
    /\ run = TRUE
    /\ got = << >>
    /\ out = << >>
    /\ nRender = 0
    /\ nRead = 0
    /\ nUpdate = 0
    /\ nClear = 0
    /\ hist = << >>

\* term.MakeRaw(0) fails: panic(err), nothing deferred yet.
MakeRawFail ==
    /\ pc = "start"
    /\ pc' = "exit"
    /\ exitKind' = "panic"
    /\ termMode' = RunDeferred(termMode, deferred)
    /\ UNCHANGED << deferred, ed, b, ch, run, got, out,
                    nRender, nRead, nUpdate, nClear, hist >>

\* term.MakeRaw(0) succeeds; defer term.Restore(0, oldState); b := make(4).
MakeRawOk ==
    /\ pc = "start"
    /\ termMode' = "raw"
    /\ deferred' = TRUE
    /\ b' = [i \in 0..(BufLen - 1) |-> NUL]
    /\ pc' = "getsize"
    /\ UNCHANGED << exitKind, ed, ch, run, got, out,
                    nRender, nRead, nUpdate, nClear, hist >>

\* The error of term.GetSize ignored: main goes on with a 0 x 0 Editor.
GetSizeFailIgnored ==
    /\ pc = "getsize"
    /\ pc' = "refresh"
    /\ UNCHANGED << termMode, deferred, exitKind, ed, b, ch, run, got, out,
                    nRender, nRead, nUpdate, nClear, hist >>

\* term.GetSize(0) fails: panic(err).
GetSizeFail ==
    /\ pc = "getsize"
    /\ pc' = "exit"
    /\ exitKind' = "panic"
    /\ termMode' = RunDeferred(termMode, deferred)
    /\ UNCHANGED << deferred, ed, b, ch, run, got, out,
                    nRender, nRead, nUpdate, nClear, hist >>

\* term.GetSize(0) succeeds; ed := &Editor{width, height}; run := true.
GetSizeOk ==
    /\ pc = "getsize"
    /\ \E w \in Widths, h \in Heights :
          ed' = [width |-> w, height |-> h, cx |-> 0, cy |-> 0]
    /\ run' = TRUE
    /\ pc' = "refresh"
    /\ UNCHANGED << termMode, deferred, exitKind, b, ch, got, out,
                    nRender, nRead, nUpdate, nClear, hist >>

\* ed.refresh(): one frame, or a panic inside drawRows.
Refresh ==
    /\ pc = "refresh"
    /\ LET r == refresh(ed)
       IN  /\ out' = r.text
           /\ nClear' = nClear + Occurrences(r.text, ClearScreen)
           /\ IF r.panic
              THEN /\ pc' = "exit"
                   /\ exitKind' = "panic"
                   /\ termMode' = RunDeferred(termMode, deferred)
              ELSE /\ pc' = "read"
                   /\ UNCHANGED << exitKind, termMode >>
    /\ nRender' = nRender + 1
    /\ UNCHANGED << deferred, ed, b, ch, run, got, nRead, nUpdate, hist >>

\* processKeyPress, first half: readKey blocks in os.Stdin.Read(b) until the
\* read returns with one of the chunks; at most limit reads are explored.
ReadFrom(chunks, limit) ==
    /\ pc = "read"
    /\ nRead < limit
    /\ \E chunk \in chunks :
          /\ b' = StdinRead(b, chunk)
          /\ got' = chunk
    /\ nRead' = nRead + 1
    /\ pc' = "decode"
    /\ UNCHANGED << termMode, deferred, exitKind, ed, ch, run, out,
                    nRender, nUpdate, nClear, hist >>

\* The read returns with 0 to 4 bytes.
ReadReturns == ReadFrom(Chunks, MaxKeys)

\* processKeyPress, second half: decode the buffer, reset slot 1, apply the
\* key; main then tests run.
KeyStep ==
    /\ pc = "decode"
    /\ LET key == readKey(b)
       IN  /\ ch' = key
           /\ b' = ResetSlot(b)
           /\ ed' = ApplyKey(ed, key)
           /\ out' = IF KeyOutput(key) = << >> THEN out ELSE KeyOutput(key)
           /\ nClear' = nClear + Occurrences(KeyOutput(key), ClearScreen)
           /\ run' = KeepRunning(key)
           /\ pc' = LoopNext(KeepRunning(key))
    /\ nUpdate' = nUpdate + 1
    /\ UNCHANGED << termMode, deferred, exitKind, got, nRender, nRead >>

\* The key step, the keys not recorded.
ProcessKey == KeyStep /\ UNCHANGED hist

\* The key step, the key and the cursor after it recorded in hist.
ProcessKeyTraced ==
    /\ KeyStep
    /\ hist' = Append(hist, [key |-> ch', cx |-> ed'.cx, cy |-> ed'.cy])

\* main returns: the deferred term.Restore runs and the process ends.
MainReturn ==
    /\ pc = "return"
    /\ termMode' = RunDeferred(termMode, deferred)
    /\ pc' = "exit"
    /\ exitKind' = "return"
    /\ UNCHANGED << deferred, ed, b, ch, run, got, out,
                    nRender, nRead, nUpdate, nClear, hist >>

Next ==
    \/ MakeRawFail
    \/ MakeRawOk
    \/ GetSizeFail
    \/ GetSizeOk
    \/ Refresh
    \/ ReadReturns
    \/ ProcessKey
    \/ MainReturn

Spec == Init /\ [][Next]_vars

\* ------------------------------------------------- the key step on its own
\* Bytes of the buffers the key step is applied to: the key bytes and NUL.
DecodeBytes == KeyBytes \cup {NUL}

\* Editors with which main reaches processKeyPress (the first refresh did not
\* panic): a terminal of MaxWidth x MaxHeight, the cursor anywhere in it.
KeyEditors ==
    {e \in [width : {MaxWidth}, height : {MaxHeight},
            cx : 0..(MaxWidth - 1), cy : 0..(MaxHeight - 1)] :
        ~refresh([e EXCEPT !.cx = 0, !.cy = 0]).panic}

\* The state in which a read has just returned 4 bytes, after ed.cx ArrowRight
\* and ed.cy ArrowDown keys moved the cursor from (0,0).
InitKey ==
    /\ pc = "decode"
    /\ termMode = "raw"
    /\ deferred = TRUE
    /\ exitKind = "none"
    /\ ed \in KeyEditors
    /\ out = refresh(ed).text
    /\ ch = (IF ed.cy > 0 THEN ARW_DOWN ELSE IF ed.cx > 0 THEN ARW_RIGHT ELSE NUL)
    /\ run = TRUE
    /\ nRender = ed.cx + ed.cy + 1
    /\ nRead = ed.cx + ed.cy + 1
    /\ nUpdate = ed.cx + ed.cy
    /\ nClear = 0
    /\ hist = << >>
    /\ b \in [0..(BufLen - 1) -> DecodeBytes]
    /\ got = << b[0], b[1], b[2], b[3] >>

NextKey == ProcessKey

SpecKey == InitKey /\ [][NextKey]_vars

\* ------------------------------------------------- the first frame on its own
\* Terminal sizes of the first frame: 1..MaxRenderWidth x 1..MaxRenderHeight.
MaxRenderWidth == 39
MaxRenderHeight == 9

\* The state in which term.GetSize has returned and the Editor is built.
InitRender ==
    /\ pc = "refresh"
    /\ termMode = "raw"
    /\ deferred = TRUE
    /\ exitKind = "none"
    /\ \E w \in 1..MaxRenderWidth, h \in 1..MaxRenderHeight :
          ed = [width |-> w, height |-> h, cx |-> 0, cy |-> 0]
    /\ b = [i \in 0..(BufLen - 1) |-> NUL]
    /\ ch = NUL
    /\ run = TRUE
    /\ got = << >>
    /\ out = << >>
    /\ nRender = 0
    /\ nRead = 0
    /\ nUpdate = 0
    /\ nClear = 0
    /\ hist = << >>

NextRender == Refresh

SpecRender == InitRender /\ [][NextRender]_vars

\* ------------------------------------------------- arrow keys on their own
\* Number of arrow keys read in one run.
MaxMoves == 7

\* The reads that deliver one arrow key: ESC [ A, ESC [ B, ESC [ C, ESC [ D.
ArrowChunks == {<< ESC, LBRACKET, c >> : c \in {65, 66, 67, 68}}

\* The state in which term.GetSize has returned MaxWidth x MaxHeight and the
\* Editor is built; hist starts with the cursor at (0,0).
InitMoves ==
    /\ pc = "refresh"
    /\ termMode = "raw"
    /\ deferred = TRUE
    /\ exitKind = "none"
    /\ ed = [width |-> MaxWidth, height |-> MaxHeight, cx |-> 0, cy |-> 0]
    /\ b = [i \in 0..(BufLen - 1) |-> NUL]
    /\ ch = NUL
    /\ run = TRUE
    /\ got = << >>
    /\ out = << >>
    /\ nRender = 0
    /\ nRead = 0
    /\ nUpdate = 0
    /\ nClear = 0
    /\ hist = << [key |-> NUL, cx |-> 0, cy |-> 0] >>

\* The read returns with an arrow key.
ReadArrow == ReadFrom(ArrowChunks, MaxMoves)

NextMoves ==
    \/ Refresh
    \/ ReadArrow
    \/ ProcessKeyTraced

SpecMoves == InitMoves /\ [][NextMoves]_vars

\* ------------------------------------------------------------------ claims
\* C1: for every viewport with width >= 1 and height >= 1, in every reachable
\* state the cursor is inside the viewport: 0 <= cx <= width-1 and
\* 0 <= cy <= height-1.
C1_CursorInViewport ==
    (ed.width >= 1 /\ ed.height >= 1)
        => /\ 0 <= ed.cx /\ ed.cx <= ed.width - 1
           /\ 0 <= ed.cy /\ ed.cy <= ed.height - 1

\* C1 witness: ArrowRight was applied on a viewport one column wide and the
\* cursor stayed in column 0.
C1_Witness ==
    pc = "refresh" /\ ed.width = 1 /\ ch = ARW_RIGHT /\ ed.cx = 0

\* C2: readKey returns the event of the recognized-sequence table: ESC [ A/B/C/D
\* are ArrowUp/Down/Right/Left, ESC [ 5 ~ is PageUp, ESC [ 6 ~ is PageDown, ESC
\* with a second byte other than '[' is the Escape value 0x1B, and a first
\* byte other than ESC is returned as it is.
C2_DecodeTable ==
    [][pc = "decode" =>
         /\ (b[0] = ESC /\ b[1] = LBRACKET /\ b[2] = 65 => ch' = ARW_UP)
         /\ (b[0] = ESC /\ b[1] = LBRACKET /\ b[2] = 66 => ch' = ARW_DOWN)
         /\ (b[0] = ESC /\ b[1] = LBRACKET /\ b[2] = 67 => ch' = ARW_RIGHT)
         /\ (b[0] = ESC /\ b[1] = LBRACKET /\ b[2] = 68 => ch' = ARW_LEFT)
         /\ (b[0] = ESC /\ b[1] = LBRACKET /\ b[2] = 53 /\ b[3] = TILDE
                => ch' = PG_UP)
         /\ (b[0] = ESC /\ b[1] = LBRACKET /\ b[2] = 54 /\ b[3] = TILDE
                => ch' = PG_DOWN)
         /\ (b[0] = ESC /\ b[1] # LBRACKET => ch' = ESC)
         /\ (b[0] # ESC => ch' = b[0])]_vars

\* C2 witness: the buffer ESC [ 5 ~ was decoded as PageUp.
C2_Witness ==
    pc = "refresh" /\ got = << ESC, LBRACKET, 53, TILDE >> /\ ch = PG_UP

\* C3: a read that delivers only the byte ESC is decoded as the Escape key,
\* whatever earlier reads left in the buffer, and leaves the cursor unchanged.
C3_LoneEscape ==
    [][(pc = "decode" /\ got = << ESC >>)
          => (ch' = ESC /\ ed' = ed /\ run' = TRUE)]_vars

\* C3 witness: a lone ESC was decoded as Escape while slot 2 still held the
\* 'A' of an earlier ESC [ A.
C3_Witness ==
    pc = "refresh" /\ got = << ESC >> /\ ch = ESC /\ b[2] = 65 /\ nRead >= 2

\* The buffers C4 is about: ESC [ followed by no recognized sequence.
Unrecognized(buf) ==
    /\ buf[0] = ESC
    /\ buf[1] = LBRACKET
    /\ \/ IsDigit(buf[2]) /\ buf[3] # TILDE
       \/ IsDigit(buf[2]) /\ buf[2] \notin {53, 54} /\ buf[3] = TILDE
       \/ ~IsDigit(buf[2]) /\ buf[2] \notin {65, 66, 67, 68}

\* C4: a buffer starting with ESC [ that is no recognized sequence is treated
\* as an ignored key: the cursor is unchanged, processKeyPress returns true
\* and the loop continues.
C4_MalformedIgnored ==
    [][(pc = "decode" /\ Unrecognized(b))
          => /\ ed' = ed
             /\ run' = TRUE
             /\ pc' = "refresh"
             /\ (ch' < 32 \/ ch' = DEL)]_vars

\* C4 witness: ESC [ 5 A (a digit without the terminator) was ignored with
\* the cursor below the top row.
C4_Witness ==
    /\ pc = "refresh"
    /\ got = << ESC, LBRACKET, 53, 65 >>
    /\ ch = ESC
    /\ ed.cy > 0

\* C5: a buffer whose first byte is 0x11 is decoded as Quit whatever the other
\* slots hold and processKeyPress returns false; for every other decoded key
\* it returns true.
C5_QuitOnly ==
    [][pc = "decode" =>
         /\ (b[0] = CTRL_Q => (ch' = CTRL_Q /\ run' = FALSE /\ pc' = "return"))
         /\ (ch' # CTRL_Q => (run' = TRUE /\ pc' = "refresh"))
         /\ (b[0] # CTRL_Q => run' = TRUE)]_vars

\* C5 witness: 0x11 followed by the bytes [ A ~ ended the loop.
C5_Witness ==
    /\ pc = "return"
    /\ got = << CTRL_Q, LBRACKET, 65, TILDE >>
    /\ ch = CTRL_Q
    /\ run = FALSE

\* C6: the full-screen clear ESC[H ESC[2J is written at most once, in the
\* iteration that decodes Quit and only there; Quit leaves cx and cy as they
\* are, and after the clear no frame is rendered and no input is read.
C6_ClearOnceOnQuit ==
    [][/\ nClear' <= 1
       /\ (nClear' # nClear => (pc = "decode" /\ ch' = CTRL_Q))
       /\ ((pc = "decode" /\ ch' = CTRL_Q)
              => (nClear' = nClear + 1 /\ out' = ClearScreen /\ ed' = ed))
       /\ (nClear = 1 => (nRender' = nRender /\ nRead' = nRead))]_vars

\* C6 witness: the process has ended by Quit, pressed after the cursor had
\* moved one column to the right.
C6_Witness ==
    /\ pc = "exit"
    /\ exitKind = "return"
    /\ nClear = 1
    /\ ch = CTRL_Q
    /\ ed.cx = 1
    /\ nRead = 2

\* C7: render(N) precedes read(N), read(N) precedes update(N) and update(N)
\* precedes render(N+1): the counts of updates, reads and renders never get
\* out of step.
C7_LoopOrder ==
    /\ nUpdate <= nRead
    /\ nRead <= nRender
    /\ nRender <= nUpdate + 1

\* C7 witness: the third frame has been rendered after two updates and the
\* loop waits for the third read.
C7_Witness ==
    pc = "read" /\ nRender = 3 /\ nRead = 2 /\ nUpdate = 2

\* C8: whenever the process has ended after raw mode was entered, the saved
\* terminal mode has been restored.
C8_ModeRestored ==
    (pc = "exit" /\ deferred) => termMode = "cooked"

\* C8 witness: the process has ended by a panic inside the first refresh, and
\* the terminal is back in its saved mode.
C8_Witness ==
    /\ pc = "exit"
    /\ exitKind = "panic"
    /\ deferred
    /\ nRender = 1
    /\ termMode = "cooked"

\* text is hide cursor, cursor home, some rows, the cursor position of e, show
\* cursor, in this order.
FrameOrder(text, e) ==
    LET head == HideCursor \o CursorHome
        tail == CursorPos(e) \o ShowCursor
    IN  /\ Len(text) >= Len(head) + Len(tail)
        /\ SubSeq(text, 1, Len(head)) = head
        /\ SubSeq(text, Len(text) - Len(tail) + 1, Len(text)) = tail

\* C9: for every viewport with width >= 1 and height >= 1, refresh completes
\* (no call of it ends the process) and writes hide cursor, cursor home, the
\* rows, the cursor position and show cursor, in this order.
C9_RefreshCompletes ==
    /\ ((pc = "exit" /\ exitKind = "panic") => nRender = 0)
    /\ (pc = "read" => FrameOrder(out, ed))

\* C10: for every viewport with width >= 1 and height >= 1, a rendered frame
\* holds exactly height clear-to-end-of-line sequences ESC[K and exactly
\* height-1 line breaks.  (No other part of the frame contains either.)
C10_RowsClearedAndBroken ==
    pc = "read"
        => /\ Occurrences(out, ClearLine) = ed.height
           /\ Occurrences(out, LineBreak) = ed.height - 1

\* The part of a frame written by drawRows: the frame without hide cursor and
\* cursor home in front and the cursor position and show cursor behind.
RowsText(text, e) ==
    SubSeq(text, Len(HideCursor) + Len(CursorHome) + 1,
           Len(text) - Len(CursorPos(e)) - Len(ShowCursor))

\* The places where pat occurs in text.
Places(text, pat) ==
    {i \in 1..(Len(text) - Len(pat) + 1) : SubSeq(text, i, i + Len(pat) - 1) = pat}

\* The least element of a non-empty set of numbers.
Least(S) == CHOOSE i \in S : \A j \in S : i <= j

\* text cut at its line breaks: the rows of a frame.
RECURSIVE SplitRows(_)
SplitRows(text) ==
    IF Places(text, LineBreak) = {}
    THEN << text >>
    ELSE LET i == Least(Places(text, LineBreak))
         IN  << SubSeq(text, 1, i - 1) >>
                 \o SplitRows(SubSeq(text, i + Len(LineBreak), Len(text)))

\* C11: in a rendered frame the welcome message stands on row height/3: it is
\* preceded by exactly height/3 line breaks, and every other row is the single
\* marker '~' (followed by the row's clear-to-end-of-line).
C11_BannerRow ==
    pc = "read"
        => LET text == RowsText(out, ed)
               rows == SplitRows(text)
           IN  /\ Cardinality(Places(text, Message)) = 1
               /\ Occurrences(SubSeq(text, 1, Least(Places(text, Message)) - 1),
                              LineBreak) = ed.height \div 3
               /\ Len(rows) = ed.height
               /\ \A y \in 0..(ed.height - 1) :
                     y # ed.height \div 3 => rows[y + 1] = Marker \o ClearLine

\* n copies of text.
RECURSIVE Repeat(_, _)
Repeat(text, n) == IF n <= 0 THEN << >> ELSE text \o Repeat(text, n - 1)

\* C12: for every width smaller than the length of the message, drawRows
\* completes and applies the truncation policy: the frame's rows are exactly
\* the first width characters of the text accumulated before the banner row
\* (height/3 marker rows), then the marker, the message and the rows after.
C12_TruncationPolicy ==
    (nRender >= 1 /\ ed.width < Len(Message))
        => /\ pc = "read"
           /\ LET before == Repeat(Marker \o ClearLine \o LineBreak, ed.height \div 3)
                  kept   == SubSeq(before, 1, ed.width)
                  after  == ed.height - 1 - (ed.height \div 3)
              IN  /\ Len(kept) = ed.width
                  /\ RowsText(out, ed)
                       = kept \o Marker \o Message \o ClearLine
                              \o Repeat(LineBreak \o Marker \o ClearLine, after)

\* C13: PageDown ends with cy = height-1 and PageUp with cy = 0, both with cx
\* unchanged, and the same page key applied again changes nothing.
C13_PageKeys ==
    [][pc = "decode" =>
         /\ (ch' = PG_DOWN => (ed'.cy = ed.height - 1 /\ ed'.cx = ed.cx))
         /\ (ch' = PG_UP => (ed'.cy = 0 /\ ed'.cx = ed.cx))
         /\ ((ch' = PG_DOWN /\ ch = PG_DOWN) => ed' = ed)
         /\ ((ch' = PG_UP /\ ch = PG_UP) => ed' = ed)]_vars

\* C13 witness: on a viewport of height 3 PageDown was applied twice after an
\* ArrowRight; the cursor is on the last row, one column to the right.
C13_Witness ==
    /\ pc = "refresh"
    /\ ch = PG_DOWN
    /\ got = << ESC, LBRACKET, 54, TILDE >>
    /\ nUpdate = 3
    /\ ed.height = 3
    /\ ed.cy = 2
    /\ ed.cx = 1

\* The opposite arrow.
Inverse(key) ==
    CASE key = ARW_LEFT  -> ARW_RIGHT
      [] key = ARW_RIGHT -> ARW_LEFT
      [] key = ARW_UP    -> ARW_DOWN
      [] key = ARW_DOWN  -> ARW_UP
      [] OTHER           -> key

\* The cursor recorded in an entry of hist.
PosOf(h) == << h.cx, h.cy >>

\* The last 2n keys of h are n arrow moves followed by their inverses in
\* reverse order.
IsRoundTrip(h, n) ==
    /\ Len(h) - 1 >= 2 * n
    /\ \A j \in 1..n :
          /\ IsArrow(h[Len(h) - n + 1 - j].key)
          /\ h[Len(h) - n + j].key = Inverse(h[Len(h) - n + 1 - j].key)

\* Each of the n forward moves of that round trip moved the cursor.
Unclamped(h, n) ==
    \A i \in (Len(h) - 2 * n + 1)..(Len(h) - n) : PosOf(h[i]) # PosOf(h[i - 1])

\* C14 as stated: after any sequence of arrow moves followed by the exact
\* inverse moves in reverse order the cursor is where it was before them.
C14_RoundTrip ==
    \A n \in 1..((Len(hist) - 1) \div 2) :
        IsRoundTrip(hist, n) => PosOf(hist[Len(hist)]) = PosOf(hist[Len(hist) - 2 * n])

\* C14 amended: the same, for sequences none of whose moves is stopped at an
\* edge of the viewport (every move of the sequence moves the cursor).
C14_RoundTripUnclamped ==
    \A n \in 1..((Len(hist) - 1) \div 2) :
        (IsRoundTrip(hist, n) /\ Unclamped(hist, n))
            => PosOf(hist[Len(hist)]) = PosOf(hist[Len(hist) - 2 * n])

\* C14 witness: three moves that all moved the cursor, two of them different,
\* have been undone by their inverses.
C14_Witness ==
    /\ pc = "refresh"
    /\ Len(hist) >= 7
    /\ IsRoundTrip(hist, 3)
    /\ Unclamped(hist, 3)
    /\ hist[Len(hist) - 3].key # hist[Len(hist) - 4].key
    /\ PosOf(hist[Len(hist)]) # << 0, 0 >>

\* C15: from an interior column ArrowLeft then ArrowRight, and ArrowRight then
\* ArrowLeft, return cx to its value (likewise ArrowUp/ArrowDown and cy from
\* an interior row); at an edge the move toward that edge changes nothing.
C15_OpposingMoves ==
    LET L == Len(hist)
    IN  /\ L >= 3 =>
              LET p  == hist[L - 2]
                  m1 == hist[L - 1]
                  m2 == hist[L]
              IN  /\ (/\ 0 < p.cx /\ p.cx < ed.width - 1
                      /\ m1.key \in {ARW_LEFT, ARW_RIGHT}
                      /\ m2.key = Inverse(m1.key)) => m2.cx = p.cx
                  /\ (/\ 0 < p.cy /\ p.cy < ed.height - 1
                      /\ m1.key \in {ARW_UP, ARW_DOWN}
                      /\ m2.key = Inverse(m1.key)) => m2.cy = p.cy
        /\ L >= 2 =>
              LET p == hist[L - 1]
                  m == hist[L]
              IN  /\ (m.key = ARW_LEFT /\ p.cx = 0) => PosOf(m) = PosOf(p)
                  /\ (m.key = ARW_RIGHT /\ p.cx = ed.width - 1) => PosOf(m) = PosOf(p)
                  /\ (m.key = ARW_UP /\ p.cy = 0) => PosOf(m) = PosOf(p)
                  /\ (m.key = ARW_DOWN /\ p.cy = ed.height - 1) => PosOf(m) = PosOf(p)

\* C15 witness: from the interior column 1 of a viewport 3 columns wide,
\* ArrowLeft then ArrowRight brought the cursor back to column 1.
C15_Witness ==
    /\ pc = "refresh"
    /\ ed.width = 3
    /\ Len(hist) >= 3
    /\ hist[Len(hist) - 2].cx = 1
    /\ hist[Len(hist) - 1].key = ARW_LEFT
    /\ hist[Len(hist) - 1].cx = 0
    /\ hist[Len(hist)].key = ARW_RIGHT
    /\ hist[Len(hist)].cx = 1

\* C16: a printable byte, an ignored control byte (< 32 or 127) and the Escape
\* key change neither cx nor cy; ArrowLeft and ArrowRight never change cy;
\* ArrowUp, ArrowDown, PageUp and PageDown never change cx; and once the
\* Editor is built no key and no render changes width or height.
C16_FrameConditions ==
    [][/\ pc = "decode" =>
             /\ (ch' <= DEL => (ed'.cx = ed.cx /\ ed'.cy = ed.cy))
             /\ (ch' \in {ARW_LEFT, ARW_RIGHT} => ed'.cy = ed.cy)
             /\ (ch' \in {ARW_UP, ARW_DOWN, PG_UP, PG_DOWN} => ed'.cx = ed.cx)
       /\ pc \in {"refresh", "read", "decode", "return"} =>
             (ed'.width = ed.width /\ ed'.height = ed.height)]_vars

\* C16 witness: the printable byte 'x' was applied with the cursor at (1,1),
\* and the cursor is still there.
C16_Witness ==
    /\ pc = "refresh"
    /\ got = << 120 >>
    /\ ch = 120
    /\ nUpdate = 3
    /\ ed.cx = 1
    /\ ed.cy = 1

\* C17: when the process has ended without an Editor (entering raw mode or the
\* size query failed), it ended by a panic, no frame was rendered, nothing was
\* written and no input was read.
C17_SetupFailure ==
    (pc = "exit" /\ ed.width = 0 /\ ed.height = 0)
        => /\ exitKind = "panic"
           /\ nRender = 0
           /\ nRead = 0
           /\ nClear = 0
           /\ out = << >>

\* C17 witness: raw mode was entered, the size query failed and the process
\* has ended.
C17_Witness ==
    /\ pc = "exit"
    /\ deferred
    /\ ed.width = 0
    /\ exitKind = "panic"
    /\ nRender = 0

\* C18: the key decoded for a read of 1 to 4 bytes depends on those bytes
\* only: it is the key decoded when no earlier read has touched the buffer. In
\* particular a read of fewer than 3 bytes is never an arrow or a page key and
\* a read of 3 bytes is never a page key.
C18_DecodeDependsOnReadOnly ==
    [][(pc = "decode" /\ Len(got) >= 1) =>
          /\ ch' = readKey(StdinRead([i \in 0..(BufLen - 1) |-> NUL], got))
          /\ (Len(got) < 3 => ~IsArrow(ch'))
          /\ (Len(got) < BufLen => ch' \notin {PG_UP, PG_DOWN})]_vars

\* C19: for every width >= 37 the banner row is the marker, (width - 37)/2
\* spaces and the message, and it is at most width characters long.
C19_BannerFits ==
    (pc = "read" /\ ed.width >= Len(Message))
        => LET rows    == SplitRows(RowsText(out, ed))
               row     == rows[(ed.height \div 3) + 1]
               content == SubSeq(row, 1, Len(row) - Len(ClearLine))
           IN  /\ content = Marker
                              \o Repeat(<< SPACE >>, (ed.width - Len(Message)) \div 2)
                              \o Message
               /\ Len(content) <= ed.width

\* C20: a read that delivers no byte leaves the buffer as it was, and the key
\* step that follows leaves cx and cy unchanged and returns true.
C20_ZeroByteRead ==
    [][/\ (pc = "read" /\ pc' = "decode" /\ got' = << >>) => b' = b
       /\ (pc = "decode" /\ got = << >>)
             => (ed' = ed /\ run' = TRUE /\ pc' = "refresh")]_vars

\* C20 witness: after an ArrowDown a read delivered nothing; the buffer still
\* holds ESC and 'B', the key was decoded as Escape and the cursor stayed on
\* row 1.
C20_Witness ==
    /\ pc = "refresh"
    /\ got = << >>
    /\ nRead = 2
    /\ b[0] = ESC
    /\ b[2] = 66
    /\ ch = ESC
    /\ ed.cy = 1

====
